---- MODULE Spec2Model ----
(***************************************************************************)
(* The in-memory task service of src/main.py: the dictionary db_tarefas,   *)
(* the pydantic request models and the five FastAPI route handlers.        *)
(*                                                                         *)
(* Encoding of Python values:                                              *)
(*   str            a sequence of characters (Len is the string's length)  *)
(*   Optional[str]  a set of at most one string: {} is None, {s} is s      *)
(*   dict           a function from its keys; DOMAIN is the key set        *)
(*   JSON body      a dict holding only the keys the client sent           *)
(*   uuid string    a TLA+ string drawn from Ids                           *)
(***************************************************************************)
EXTENDS Bags, FiniteSets, Integers, Sequences, TLC

VARIABLES
    db_tarefas,   \* main.py:26, the process-wide dict id -> task dict
    issued,       \* the uuid4 values drawn so far (uuid4 does not repeat)
    last,         \* the request served last and the response it got
    contagem,     \* how many creates and how many deletes have succeeded so far
    reqs,         \* the requests in flight, each with its handler's position and locals
    running,      \* the request whose handler holds the event loop, 0 when it is free
    shadow        \* the store of the serial execution, in the order the handlers return

vars == <<db_tarefas, issued, last, contagem, reqs, running, shadow>>

----------------------------------------------------------------------------
(* Bounds of the model *)

NumIds == 2
MaxRequests == 2

(* Program constants *)

MinLength == 3
HTTP_200_OK == 200
HTTP_201_CREATED == 201
HTTP_204_NO_CONTENT == 204
HTTP_404_NOT_FOUND == 404
HTTP_422_UNPROCESSABLE == 422

\* Titles are tried from the empty one to one character above the minimum length.
MaxTitleLen == MinLength + 1

----------------------------------------------------------------------------
(* Input domains *)

Chars == {"a"}

Strs(n) == UNION {[1..k -> Chars] : k \in 0..n}

Ids == {"uuid-" \o ToString(i) : i \in 1..NumIds}

None == {}

Some(s) == {s}

EmptyDict == <<>>

\* The JSON objects a client may send to POST /tarefas: each key present or not.
TituloPart == {EmptyDict} \cup {[titulo |-> t] : t \in Strs(MaxTitleLen)}

\* descricao is sent or not; no code looks into the text of a description.
DescricaoPart == {EmptyDict, [descricao |-> Some(<<"d">>)]}

ConcluidaPart == {EmptyDict} \cup {[concluida |-> c] : c \in BOOLEAN}

CreateBodies == {t @@ d : t \in TituloPart, d \in DescricaoPart}

UpdateBodies == {t @@ d @@ c : t \in TituloPart, d \in DescricaoPart, c \in ConcluidaPart}

----------------------------------------------------------------------------
(* Python dict operations *)

DictGet(d, k) == IF k \in DOMAIN d THEN Some(d[k]) ELSE None

DictSet(d, k, v) == (k :> v) @@ d

DictUpdate(d, other) == other @@ d

DictDel(d, k) == [x \in DOMAIN d \ {k} |-> d[x]]

\* Python truthiness of an Optional[dict]: None and the empty dict are falsy.
Falsy(opt) == opt = None \/ \E t \in opt : DOMAIN t = {}

----------------------------------------------------------------------------
(* The pydantic models *)

\* Variant: the minimum length compared one short (>= MinLength - 1).
TituloValidoUmAMenos(body) == "titulo" \in DOMAIN body /\ Len(body.titulo) >= MinLength - 1

TituloValido(body) == "titulo" \in DOMAIN body /\ Len(body.titulo) >= MinLength

TarefaBase(body) ==
    [titulo    |-> body.titulo,
     descricao |-> IF "descricao" \in DOMAIN body THEN body.descricao ELSE None]

TarefaCreate(body) == TarefaBase(body)

\* Variant: only the fields the client sent are dumped (model_dump(exclude_unset=True)).
TarefaUpdateParcial(body) == body

TarefaUpdate(body) ==
    TarefaBase(body) @@
    [concluida |-> IF "concluida" \in DOMAIN body THEN body.concluida ELSE FALSE]

\* response_model=Tarefa: the response carries the four fields of Tarefa.
Tarefa(t) == [f \in {"id", "titulo", "descricao", "concluida"} |-> t[f]]

----------------------------------------------------------------------------
(* Helpers of main.py *)

_get_tarefa_dict(db, tarefa_id) == DictGet(db, tarefa_id)

\* Variant: an identifier generator that may return a value it returned before.
_generate_id_repetido(drawn) == Ids

\* uuid4 yields a value that was never drawn before.
_generate_id(drawn) == Ids \ drawn

Resposta(db, status, result) == [db |-> db, status |-> status, result |-> result]

NaoEncontrada(db) == Resposta(db, HTTP_404_NOT_FOUND, [detail |-> "nao encontrada"])

Invalida(db) == Resposta(db, HTTP_422_UNPROCESSABLE, [detail |-> "titulo"])

----------------------------------------------------------------------------
(* The handlers, as functions of the store and the request *)

\* Variant: the description of the request is not copied into the new task.
criar_tarefa_sem_descricao(db, tarefa_data, novo_id) ==
    LET nova_tarefa ==
            [id |-> novo_id, titulo |-> tarefa_data.titulo,
             descricao |-> None, concluida |-> FALSE]
    IN  Resposta(DictSet(db, novo_id, nova_tarefa), HTTP_201_CREATED, Tarefa(nova_tarefa))

criar_tarefa(db, tarefa_data, novo_id) ==
    LET nova_tarefa ==
            [id |-> novo_id, titulo |-> tarefa_data.titulo,
             descricao |-> tarefa_data.descricao, concluida |-> FALSE]
    IN  Resposta(DictSet(db, novo_id, nova_tarefa), HTTP_201_CREATED, Tarefa(nova_tarefa))

\* Variant: only the tasks still open are listed.
listar_tarefas_abertas(db) ==
    Resposta(db, HTTP_200_OK,
             [t \in {db[k] : k \in {j \in DOMAIN db : ~db[j].concluida}}
                |-> Cardinality({k \in DOMAIN db : db[k] = t})])

listar_tarefas(db) ==
    Resposta(db, HTTP_200_OK,
             [t \in {db[k] : k \in DOMAIN db} |-> Cardinality({k \in DOMAIN db : db[k] = t})])

obter_tarefa(db, tarefa_id) ==
    LET tarefa == _get_tarefa_dict(db, tarefa_id)
    IN  IF Falsy(tarefa)
        THEN NaoEncontrada(db)
        ELSE Resposta(db, HTTP_200_OK, Tarefa(CHOOSE t \in tarefa : TRUE))

\* Variant: the id written back at line 111 is an empty string, not the path's id.
atualizar_tarefa_sem_id(db, tarefa_id, tarefa_data) ==
    LET tarefa_existente == _get_tarefa_dict(db, tarefa_id)
    IN  IF Falsy(tarefa_existente)
        THEN NaoEncontrada(db)
        ELSE LET atual == CHOOSE t \in tarefa_existente : TRUE
                 nova  == DictSet(DictUpdate(atual, tarefa_data), "id", "")
             IN  Resposta(DictSet(db, tarefa_id, nova), HTTP_200_OK, Tarefa(nova))

atualizar_tarefa(db, tarefa_id, tarefa_data) ==
    LET tarefa_existente == _get_tarefa_dict(db, tarefa_id)
    IN  IF Falsy(tarefa_existente)
        THEN NaoEncontrada(db)
        ELSE LET atual == CHOOSE t \in tarefa_existente : TRUE
                 nova  == DictSet(DictUpdate(atual, tarefa_data), "id", tarefa_id)
             IN  Resposta(DictSet(db, tarefa_id, nova), HTTP_200_OK, Tarefa(nova))

\* Variant: the key is popped with a default, so a missing id is not reported.
deletar_tarefa_pop(db, tarefa_id) ==
    Resposta(DictDel(db, tarefa_id), HTTP_204_NO_CONTENT, EmptyDict)

deletar_tarefa(db, tarefa_id) ==
    IF tarefa_id \notin DOMAIN db
    THEN NaoEncontrada(db)
    ELSE Resposta(DictDel(db, tarefa_id), HTTP_204_NO_CONTENT, EmptyDict)

----------------------------------------------------------------------------
(* The routes: FastAPI validates the body against the declared model and   *)
(* calls the handler only when the body is valid.                          *)

PostTarefas(db, body, novo_id) ==
    IF ~TituloValido(body)
    THEN Invalida(db)
    ELSE criar_tarefa(db, TarefaCreate(body), novo_id)

\* Variant: the handler is entered first and the body is validated after the lookup.
PutTarefasBuscaAntes(db, tarefa_id, body) ==
    IF Falsy(_get_tarefa_dict(db, tarefa_id))
    THEN NaoEncontrada(db)
    ELSE IF ~TituloValido(body)
         THEN Invalida(db)
         ELSE atualizar_tarefa(db, tarefa_id, TarefaUpdate(body))

\* Variant: the update model only requires the title to be present and the length is
\* left to the handler, whose check at lines 106-107 does nothing.
PutTarefasSemMinimo(db, tarefa_id, body) ==
    IF "titulo" \notin DOMAIN body
    THEN Invalida(db)
    ELSE atualizar_tarefa(db, tarefa_id, TarefaUpdate(body))

PutTarefas(db, tarefa_id, body) ==
    IF ~TituloValido(body)
    THEN Invalida(db)
    ELSE atualizar_tarefa(db, tarefa_id, TarefaUpdate(body))

----------------------------------------------------------------------------
(* One request served at a time *)

Slots == 1..MaxRequests

Idle == [pc |-> "idle"]

Init ==
    /\ db_tarefas = EmptyDict
    /\ issued = {}
    /\ last = [op |-> "none"]
    /\ contagem = [criadas |-> 0, deletadas |-> 0]
    /\ reqs = [s \in Slots |-> Idle]
    /\ running = 0
    /\ shadow = EmptyDict

Served(op, tarefa_id, body, r) ==
    /\ UNCHANGED <<reqs, running, shadow>>
    /\ db_tarefas' = r.db
    /\ last' = [op |-> op, id |-> tarefa_id, body |-> body,
                status |-> r.status, result |-> r.result]
    /\ contagem' =
          [criadas   |-> contagem.criadas +
                           (IF r.status = HTTP_201_CREATED THEN 1 ELSE 0),
           deletadas |-> contagem.deletadas +
                           (IF r.status = HTTP_204_NO_CONTENT THEN 1 ELSE 0)]

Criar ==
    \E body \in CreateBodies :
        IF TituloValido(body)
        THEN \E novo_id \in _generate_id(issued) :
                /\ Served("criar", novo_id, body, PostTarefas(db_tarefas, body, novo_id))
                /\ issued' = issued \cup {novo_id}
        ELSE /\ Served("criar", "", body, PostTarefas(db_tarefas, body, ""))
             /\ UNCHANGED issued

Listar ==
    /\ Served("listar", "", EmptyDict, listar_tarefas(db_tarefas))
    /\ UNCHANGED issued

Obter ==
    \E tarefa_id \in Ids :
        /\ Served("obter", tarefa_id, EmptyDict, obter_tarefa(db_tarefas, tarefa_id))
        /\ UNCHANGED issued

Atualizar ==
    \E tarefa_id \in Ids, body \in UpdateBodies :
        /\ Served("atualizar", tarefa_id, body, PutTarefas(db_tarefas, tarefa_id, body))
        /\ UNCHANGED issued

Deletar ==
    \E tarefa_id \in Ids :
        /\ Served("deletar", tarefa_id, EmptyDict, deletar_tarefa(db_tarefas, tarefa_id))
        /\ UNCHANGED issued

Next == Criar \/ Listar \/ Obter \/ Atualizar \/ Deletar

Spec == Init /\ [][Next]_vars

----------------------------------------------------------------------------
(* Properties of the service serving one request at a time (Spec).  In a   *)
(* step, last' is the request the step serves and its response, and        *)
(* db_tarefas is the store before it.                                      *)

\* A title that fails the schema: missing, or shorter than the minimum length.
TituloCurto(body) == "titulo" \notin DOMAIN body \/ Len(body.titulo) < MinLength

DescricaoPedida(body) == IF "descricao" \in DOMAIN body THEN body.descricao ELSE None

ConcluidaPedida(body) == IF "concluida" \in DOMAIN body THEN body.concluida ELSE FALSE

OutrasIguais(keys) == \A k \in keys : k \in DOMAIN db_tarefas' /\ db_tarefas'[k] = db_tarefas[k]

\* C1: an update of an existing id whose title is missing or shorter than 3 characters
\* ends in 422 and leaves the whole store, the addressed record included, as it was.
C1_UpdateTituloInvalido ==
    [][ (/\ last'.op = "atualizar"
         /\ last'.id \in DOMAIN db_tarefas
         /\ TituloCurto(last'.body))
        => (/\ last'.status = HTTP_422_UNPROCESSABLE
            /\ db_tarefas' = db_tarefas) ]_vars

C1_Witness ==
    /\ last.op = "atualizar"
    /\ last.status = HTTP_422_UNPROCESSABLE
    /\ last.id \in DOMAIN db_tarefas
    /\ "titulo" \in DOMAIN last.body /\ Len(last.body.titulo) = MinLength - 1
    /\ Cardinality(DOMAIN db_tarefas) >= 2

\* C2: for an id that is not a key of the store, get, update with a valid body and
\* delete answer 404 and leave the store unchanged; and get answers 404 only for an id
\* that is not a key.
C2_NaoEncontrada ==
    [][ /\ (/\ last'.id \notin DOMAIN db_tarefas
            /\ \/ last'.op \in {"obter", "deletar"}
               \/ last'.op = "atualizar" /\ ~TituloCurto(last'.body))
           => (last'.status = HTTP_404_NOT_FOUND /\ db_tarefas' = db_tarefas)
        /\ (last'.op = "obter" /\ last'.status = HTTP_404_NOT_FOUND)
           => last'.id \notin DOMAIN db_tarefas ]_vars

C2_Witness ==
    /\ last.op = "atualizar"
    /\ last.status = HTTP_404_NOT_FOUND
    /\ last.id \notin DOMAIN db_tarefas
    /\ DOMAIN db_tarefas # {}

\* C3: a create with a valid title answers 201 with a new id, adds exactly one entry
\* under that id, leaves the entries stored before unchanged, and a get of the returned
\* id then yields the request's title and description with concluida = FALSE.
C3_CriarEObter ==
    [][ (last'.op = "criar" /\ ~TituloCurto(last'.body))
        => LET novo == last'.result.id
               lido == obter_tarefa(db_tarefas', novo)
           IN  /\ last'.status = HTTP_201_CREATED
               /\ novo \notin DOMAIN db_tarefas
               /\ DOMAIN db_tarefas' = DOMAIN db_tarefas \cup {novo}
               /\ OutrasIguais(DOMAIN db_tarefas)
               /\ lido.status = HTTP_200_OK
               /\ lido.result = [id |-> novo, titulo |-> last'.body.titulo,
                                 descricao |-> DescricaoPedida(last'.body),
                                 concluida |-> FALSE] ]_vars

C3_Witness ==
    /\ last.op = "criar"
    /\ last.status = HTTP_201_CREATED
    /\ "descricao" \in DOMAIN last.body
    /\ Cardinality(DOMAIN db_tarefas) >= 2

\* C4: an update of an existing id with a valid body answers 200, stores exactly the
\* request's title, description (None when omitted) and concluida (FALSE when omitted)
\* under the same key and id, returns the record as stored, and a get of the id then
\* yields that record.
C4_UpdateSubstitui ==
    [][ (/\ last'.op = "atualizar"
         /\ last'.id \in DOMAIN db_tarefas
         /\ ~TituloCurto(last'.body))
        => LET nova == [id |-> last'.id, titulo |-> last'.body.titulo,
                        descricao |-> DescricaoPedida(last'.body),
                        concluida |-> ConcluidaPedida(last'.body)]
               lido == obter_tarefa(db_tarefas', last'.id)
           IN  /\ last'.status = HTTP_200_OK
               /\ DOMAIN db_tarefas' = DOMAIN db_tarefas
               /\ db_tarefas'[last'.id] = nova
               /\ last'.result = db_tarefas'[last'.id]
               /\ lido.status = HTTP_200_OK
               /\ lido.result = nova ]_vars

C4_Witness ==
    /\ last.op = "atualizar"
    /\ last.status = HTTP_200_OK
    /\ DOMAIN last.body = {"titulo"}
    /\ db_tarefas[last.id].descricao = None
    /\ db_tarefas[last.id].concluida = FALSE
    /\ Cardinality(DOMAIN db_tarefas) >= 2

\* An id that was generated and is not in the store: its task was deleted.
Removida(id) == id \in issued /\ id \notin DOMAIN db_tarefas

\* C5: a delete of an existing id answers 204 and removes exactly that entry; from then
\* on, whatever requests follow, the id stays out of the store and a get of it answers
\* 404.
C5_DeletarDefinitivo ==
    [][ /\ (last'.op = "deletar" /\ last'.id \in DOMAIN db_tarefas)
           => (/\ last'.status = HTTP_204_NO_CONTENT
               /\ DOMAIN db_tarefas' = DOMAIN db_tarefas \ {last'.id}
               /\ OutrasIguais(DOMAIN db_tarefas \ {last'.id})
               /\ last'.id \in issued' /\ last'.id \notin DOMAIN db_tarefas')
        /\ \A id \in Ids :
              Removida(id)
              => (/\ Removida(id)'
                  /\ (last'.op = "obter" /\ last'.id = id)
                     => last'.status = HTTP_404_NOT_FOUND) ]_vars

C5_Witness ==
    /\ last.op = "obter"
    /\ last.status = HTTP_404_NOT_FOUND
    /\ Removida(last.id)
    /\ contagem.criadas >= 2
    /\ DOMAIN db_tarefas # {}

\* C6: a list of the empty store is empty, and while no delete has succeeded a list
\* returns as many records as creates have succeeded, with pairwise distinct ids.
C6_ListarConta ==
    last.op = "listar"
    => /\ (DOMAIN db_tarefas = {} => last.result = EmptyBag)
       /\ contagem.deletadas = 0
          => /\ BagCardinality(last.result) = contagem.criadas
             /\ \A t \in DOMAIN last.result : last.result[t] = 1
             /\ \A t, u \in DOMAIN last.result : t.id = u.id => t = u

C6_Witness ==
    /\ last.op = "listar"
    /\ contagem.deletadas = 0
    /\ contagem.criadas = NumIds
    /\ BagCardinality(last.result) = NumIds
    /\ \E k \in DOMAIN db_tarefas : db_tarefas[k].concluida

\* C7: every entry of the store holds a record whose id is not empty and equals the
\* key it is stored under, so no two records share an id.
C7_IdIgualChave ==
    /\ \A k \in DOMAIN db_tarefas : db_tarefas[k].id = k /\ db_tarefas[k].id # ""
    /\ \A j, k \in DOMAIN db_tarefas : db_tarefas[j].id = db_tarefas[k].id => j = k

C7_Witness ==
    /\ Cardinality(DOMAIN db_tarefas) >= 2
    /\ last.op = "atualizar"
    /\ last.status = HTTP_200_OK

\* C8: every stored record has a title of at least 3 characters, whatever requests,
\* valid or not, were served.
C8_TituloMinimo ==
    \A k \in DOMAIN db_tarefas : Len(db_tarefas[k].titulo) >= MinLength

C8_Witness ==
    /\ last.op = "atualizar"
    /\ last.status = HTTP_200_OK
    /\ Len(db_tarefas[last.id].titulo) = MinLength
    /\ contagem.deletadas >= 1

\* C9: a create or an update whose title is missing or too short answers 422 and
\* changes nothing, whether or not the id of the update is in the store: an unknown id
\* with an invalid title gets 422, not 404.
C9_ValidacaoPrimeiro ==
    [][ (last'.op \in {"criar", "atualizar"} /\ TituloCurto(last'.body))
        => (/\ last'.status = HTTP_422_UNPROCESSABLE
            /\ db_tarefas' = db_tarefas
            /\ issued' = issued) ]_vars

C9_Witness ==
    /\ last.op = "atualizar"
    /\ last.status = HTTP_422_UNPROCESSABLE
    /\ last.id \notin DOMAIN db_tarefas
    /\ DOMAIN db_tarefas # {}

----------------------------------------------------------------------------
(* Requests handled concurrently.  Every handler is an `async def` whose   *)
(* body holds no await: once the event loop calls it, it runs to its       *)
(* return before any other handler is called.  The handlers are split at   *)
(* their accesses to db_tarefas, and the event loop decides which may run. *)

\* Variant: handlers declared with plain `def`, which FastAPI runs on a thread pool,
\* so that a handler may take a step whatever the others are doing.
ThreadPool(run, s) == TRUE

\* A handler may take a step when the event loop is free or is already its own.
EventLoop(run, s) == run \in {0, s}

\* The bodies used by the concurrent requests: a title one short of the minimum
\* or of the minimum length, and for an update the completion flag.
ConcCreateBodies ==
    {b \in CreateBodies :
        DOMAIN b = {"titulo"} /\ Len(b.titulo) \in {MinLength - 1, MinLength}}

ConcUpdateBodies ==
    {b \in UpdateBodies :
        DOMAIN b = {"titulo", "concluida"} /\ Len(b.titulo) \in {MinLength - 1, MinLength}}

ConcRequests ==
    {[op |-> "criar", id |-> "", body |-> b] : b \in ConcCreateBodies}
    \cup {[op |-> "atualizar", id |-> i, body |-> b] : i \in Ids, b \in ConcUpdateBodies}
    \cup {[op |-> o, id |-> i, body |-> EmptyDict] : o \in {"obter", "deletar"}, i \in Ids}
    \cup {[op |-> "listar", id |-> "", body |-> EmptyDict]}

\* What the request gets when it is served alone on store db.
Serial(db, r) ==
    CASE r.op = "criar"     -> PostTarefas(db, r.body, r.id)
      [] r.op = "listar"    -> listar_tarefas(db)
      [] r.op = "obter"     -> obter_tarefa(db, r.id)
      [] r.op = "atualizar" -> PutTarefas(db, r.id, r.body)
      [] r.op = "deletar"   -> deletar_tarefa(db, r.id)

InFlight == {s \in Slots : reqs[s].pc \notin {"idle", "respondida"}}

InHandler == {s \in Slots : reqs[s].pc \in {"criar_62", "atualizar_109", "atualizar_113", "deletar_131"}}

\* The response of request s leaves; the serial execution serves it at this point.
Responde(s, r, status, result) ==
    LET ser == Serial(shadow, r)
    IN  /\ reqs' = [reqs EXCEPT ![s] =
                        [r EXCEPT !.pc = "respondida", !.status = status, !.result = result,
                                  !.serial = [status |-> ser.status, result |-> ser.result]]]
        /\ shadow' = ser.db

Avanca(s, r, pc) ==
    /\ reqs' = [reqs EXCEPT ![s] = [r EXCEPT !.pc = pc]]
    /\ UNCHANGED shadow

\* A task created by an earlier request (POST {"titulo": "aaa"}) may already be stored.
StoreInicial ==
    {EmptyDict}
    \cup {PostTarefas(EmptyDict, b, CHOOSE i \in Ids : TRUE).db :
            b \in {c \in ConcCreateBodies : TituloValido(c)}}

InitConc ==
    /\ db_tarefas \in StoreInicial
    /\ issued = DOMAIN db_tarefas
    /\ last = [op |-> "none"]
    /\ contagem = [criadas |-> Cardinality(DOMAIN db_tarefas), deletadas |-> 0]
    /\ reqs = [s \in Slots |-> Idle]
    /\ running = 0
    /\ shadow = db_tarefas

\* A request arrives; FastAPI parses and validates its body before any handler.
Chegar(s) ==
    /\ reqs[s].pc = "idle"
    /\ \E q \in ConcRequests :
        LET r == [op |-> q.op, id |-> q.id, body |-> q.body, pc |-> "validada",
                  local |-> None, status |-> 0, result |-> EmptyDict,
                  serial |-> EmptyDict, conc |-> InFlight]
        IN  IF q.op \in {"criar", "atualizar"} /\ ~TituloValido(q.body)
            THEN /\ Responde(s, r, Invalida(db_tarefas).status, Invalida(db_tarefas).result)
            ELSE /\ Avanca(s, r, "validada")
    /\ UNCHANGED <<db_tarefas, issued, last, contagem, running>>

\* criar_tarefa, lines 53-60
ChamaCriar(s) ==
    /\ reqs[s].pc = "validada" /\ reqs[s].op = "criar"
    /\ EventLoop(running, s)
    /\ \E novo_id \in _generate_id(issued) :
        /\ issued' = issued \cup {novo_id}
        /\ Avanca(s, [reqs[s] EXCEPT !.id = novo_id], "criar_62")
    /\ running' = s
    /\ UNCHANGED <<db_tarefas, last, contagem>>

\* criar_tarefa, lines 62-63
CriarGrava(s) ==
    /\ reqs[s].pc = "criar_62"
    /\ EventLoop(running, s)
    /\ LET r == criar_tarefa(db_tarefas, TarefaCreate(reqs[s].body), reqs[s].id)
       IN  /\ db_tarefas' = r.db
           /\ Responde(s, reqs[s], r.status, r.result)
    /\ running' = 0
    /\ UNCHANGED <<issued, last, contagem>>

\* listar_tarefas, line 71
ChamaListar(s) ==
    /\ reqs[s].pc = "validada" /\ reqs[s].op = "listar"
    /\ EventLoop(running, s)
    /\ LET r == listar_tarefas(db_tarefas)
       IN  Responde(s, reqs[s], r.status, r.result)
    /\ running' = 0
    /\ UNCHANGED <<db_tarefas, issued, last, contagem>>

\* obter_tarefa, lines 81-89
ChamaObter(s) ==
    /\ reqs[s].pc = "validada" /\ reqs[s].op = "obter"
    /\ EventLoop(running, s)
    /\ LET r == obter_tarefa(db_tarefas, reqs[s].id)
       IN  Responde(s, reqs[s], r.status, r.result)
    /\ running' = 0
    /\ UNCHANGED <<db_tarefas, issued, last, contagem>>

\* atualizar_tarefa, lines 98-104
ChamaAtualizar(s) ==
    /\ reqs[s].pc = "validada" /\ reqs[s].op = "atualizar"
    /\ EventLoop(running, s)
    /\ LET tarefa_existente == _get_tarefa_dict(db_tarefas, reqs[s].id)
       IN  IF Falsy(tarefa_existente)
           THEN /\ Responde(s, reqs[s], NaoEncontrada(db_tarefas).status,
                            NaoEncontrada(db_tarefas).result)
                /\ running' = 0
           ELSE /\ Avanca(s, [reqs[s] EXCEPT !.local = tarefa_existente], "atualizar_109")
                /\ running' = s
    /\ UNCHANGED <<db_tarefas, issued, last, contagem>>

\* atualizar_tarefa, lines 109-111: tarefa_existente is the stored dict itself, so
\* updating it in place changes the entry of db_tarefas while the entry is there.
AtualizarMescla(s) ==
    /\ reqs[s].pc = "atualizar_109"
    /\ EventLoop(running, s)
    /\ LET atual == CHOOSE t \in reqs[s].local : TRUE
           nova  == DictSet(DictUpdate(atual, TarefaUpdate(reqs[s].body)), "id", reqs[s].id)
       IN  /\ Avanca(s, [reqs[s] EXCEPT !.local = Some(nova)], "atualizar_113")
           /\ db_tarefas' = IF reqs[s].id \in DOMAIN db_tarefas
                            THEN DictSet(db_tarefas, reqs[s].id, nova)
                            ELSE db_tarefas
    /\ running' = s
    /\ UNCHANGED <<issued, last, contagem>>

\* atualizar_tarefa, lines 113-115
AtualizarGrava(s) ==
    /\ reqs[s].pc = "atualizar_113"
    /\ EventLoop(running, s)
    /\ LET nova == CHOOSE t \in reqs[s].local : TRUE
       IN  /\ db_tarefas' = DictSet(db_tarefas, reqs[s].id, nova)
           /\ Responde(s, reqs[s], HTTP_200_OK, Tarefa(nova))
    /\ running' = 0
    /\ UNCHANGED <<issued, last, contagem>>

\* deletar_tarefa, lines 125-129
ChamaDeletar(s) ==
    /\ reqs[s].pc = "validada" /\ reqs[s].op = "deletar"
    /\ EventLoop(running, s)
    /\ IF reqs[s].id \notin DOMAIN db_tarefas
       THEN /\ Responde(s, reqs[s], NaoEncontrada(db_tarefas).status,
                        NaoEncontrada(db_tarefas).result)
            /\ running' = 0
       ELSE /\ Avanca(s, reqs[s], "deletar_131")
            /\ running' = s
    /\ UNCHANGED <<db_tarefas, issued, last, contagem>>

\* deletar_tarefa, lines 131-133; del raises KeyError (a 500 response) on a missing key.
DeletarRemove(s) ==
    /\ reqs[s].pc = "deletar_131"
    /\ EventLoop(running, s)
    /\ IF reqs[s].id \in DOMAIN db_tarefas
       THEN /\ db_tarefas' = DictDel(db_tarefas, reqs[s].id)
            /\ Responde(s, reqs[s], HTTP_204_NO_CONTENT, EmptyDict)
       ELSE /\ db_tarefas' = db_tarefas
            /\ Responde(s, reqs[s], 500, [detail |-> "KeyError"])
    /\ running' = 0
    /\ UNCHANGED <<issued, last, contagem>>

NextConc ==
    \E s \in Slots :
        \/ Chegar(s)
        \/ ChamaCriar(s)
        \/ CriarGrava(s)
        \/ ChamaListar(s)
        \/ ChamaObter(s)
        \/ ChamaAtualizar(s)
        \/ AtualizarMescla(s)
        \/ AtualizarGrava(s)
        \/ ChamaDeletar(s)
        \/ DeletarRemove(s)

SpecConc == InitConc /\ [][NextConc]_vars

----------------------------------------------------------------------------
(* Property of the concurrent service (SpecConc) *)

Respondida(s) == reqs[s].pc = "respondida"

\* C10: no two handlers are ever inside their bodies at once; whenever no handler is
\* inside its body the store is the one the serial execution (in the order the handlers
\* returned) produces, and every response is the one that serial execution gives; and
\* once a delete has answered 204, its id is absent from the store when an update of the
\* same id has finished too.
C10_Serializavel ==
    /\ Cardinality(InHandler) <= 1
    /\ InHandler = {} => db_tarefas = shadow
    /\ \A s \in Slots :
          Respondida(s)
          => reqs[s].serial = [status |-> reqs[s].status, result |-> reqs[s].result]
    /\ \A s, t \in Slots :
          (/\ Respondida(s) /\ reqs[s].op = "deletar"
           /\ reqs[s].status = HTTP_204_NO_CONTENT
           /\ Respondida(t) /\ reqs[t].op = "atualizar" /\ reqs[t].id = reqs[s].id)
          => reqs[s].id \notin DOMAIN db_tarefas

\* An update and a delete of the same stored id, in flight together, both answered with
\* success.
C10_Witness ==
    \E s, t \in Slots :
        /\ Respondida(s) /\ reqs[s].op = "deletar" /\ reqs[s].status = HTTP_204_NO_CONTENT
        /\ Respondida(t) /\ reqs[t].op = "atualizar" /\ reqs[t].status = HTTP_200_OK
        /\ reqs[t].id = reqs[s].id
        /\ (s \in reqs[t].conc \/ t \in reqs[s].conc)

====
